---- MODULE Spec2Model ----
(***************************************************************************)
(* State and event model of the HoverCard, ToggleGroup and Checkbox        *)
(* primitives.                                                             *)
(*                                                                         *)
(* HoverCard: the two timer refs, the browser's pending timeouts, the      *)
(* controllable open state, the pointer handlers of trigger and content,   *)
(* and the unmount cleanup.                                                *)
(* ToggleGroup: the controllable value of the single and the multiple      *)
(* implementation, the context value handed to the items, and the items'   *)
(* press handler.                                                          *)
(***************************************************************************)
EXTENDS Integers, Sequences, FiniteSets, TLC

VARIABLES
    hc,     \* one mounted HoverCard instance (a record, see HoverCardInit)
    tg,     \* one rendered ToggleGroup instance (a record, see ToggleGroupInit)
    cb,     \* one mounted Checkbox instance (a record, see CheckboxInit)
    hc2,    \* a second HoverCard instance, mounted next to hc
    tg2,    \* a second ToggleGroup instance, rendered next to tg
    ctx     \* context consumers rendered on their own (see ConsumersInit)

vars == <<hc, tg, cb, hc2, tg2, ctx>>

\* what a step of one component leaves alone
notHoverCard == <<tg, cb, hc2, tg2, ctx>>
notToggleGroup == <<hc, cb, hc2, tg2, ctx>>
notCheckbox == <<hc, tg, hc2, tg2, ctx>>
notHoverCards == <<tg, cb, tg2, ctx>>
notToggleGroups == <<hc, cb, hc2, ctx>>
notConsumers == <<hc, tg, cb, hc2, tg2>>

(***************************************************************************)
(* Bounds of the model.                                                    *)
(***************************************************************************)
\* pointer enter/leave events delivered to one HoverCard
MaxPointerEvents == 3
\* the largest amount of time (ms) one TimePasses step lets elapse
TimeStep == 100
\* onItemActivate / onItemDeactivate calls made on one ToggleGroup
MaxCalls == 4
\* ToggleGroupItems rendered in the group
NumItems == 4
\* clicks on one Checkbox
MaxClicks == 3
\* checked props the owner of a controlled Checkbox changes
MaxPropChanges == 2
\* context consumers rendered on their own
MaxRenders == 2

(***************************************************************************)
(* Optional values: a prop that was not passed is undefined.               *)
(***************************************************************************)
Undefined == <<>>
Some(v) == <<v>>
Get(o) == o[1]

(***************************************************************************)
(* useControllableState: {prop, defaultProp, onChange} -> [value, setValue] *)
(* A cell is [prop, internalValue, changes]; changes logs the onChange     *)
(* calls.                                                                  *)
(***************************************************************************)
Cell(prop, defaultProp) ==
    [prop |-> prop, internalValue |-> defaultProp, changes |-> <<>>]

\* the effective value: the external value if defined, else the internal one
CellValue(c) == IF c.prop # Undefined THEN c.prop ELSE c.internalValue

\* setValue(next): onChange fires on every call; the internal value is
\* written only when no external value is supplied
CellSet(c, next) ==
    [c EXCEPT !.internalValue = IF c.prop # Undefined THEN @ ELSE Some(next),
              !.changes = Append(@, next)]

\* the previous effective value that setValue(updater) hands to the updater
CellPrev(c) == CellValue(c)

(***************************************************************************)
(* HoverCard                                                               *)
(***************************************************************************)
HOVERCARD_NAME == "HoverCard"
TRIGGER_NAME == "HoverCardTrigger"
CONTENT_NAME == "HoverCardContent"

openDelay == 700
closeDelay == 300

PointerTypes == {"mouse", "pen", "touch"}

\* an entry of the history hc.hist
PointerEvent(kind, pointerType) ==
    [ev |-> kind, touch |-> (pointerType = "touch"), val |-> FALSE, waited |-> 0]
FireEvent(t) ==
    [ev |-> "fire", touch |-> FALSE, val |-> t.val, waited |-> t.waited]
UnmountEvent ==
    [ev |-> "unmount", touch |-> FALSE, val |-> FALSE, waited |-> 0]

IsPointerEvent(e) == e.ev \in {"enter", "leave"}
NumPointerEvents(s) == Len(SelectSeq(s.hist, IsPointerEvent))
Log(s, e) == [s EXCEPT !.hist = Append(@, e)]

\* const [open = false, setOpen] = useControllableState(...)
Open(s) == IF CellValue(s.cell) = Undefined THEN FALSE ELSE Get(CellValue(s.cell))

\* mutant: a controlled HoverCard does not call setOpen
setOpen_SkipsWhenControlled(s, value) ==
    IF s.cell.prop # Undefined
    THEN s
    ELSE [s EXCEPT !.cell = CellSet(@, value)]

\* setOpen(value); React drops the state update of an unmounted component,
\* the call and its onChange still happen
setOpen(s, value) ==
    IF s.mounted
    THEN [s EXCEPT !.cell = CellSet(@, value)]
    ELSE [s EXCEPT !.cell.changes = Append(@, value)]

\* window.setTimeout(() => setOpen(value), delay): the handle is s.nextTimerId
setTimeout(s, value, delay) ==
    [s EXCEPT !.timers = @ \cup {[id |-> s.nextTimerId, val |-> value,
                                  left |-> delay, waited |-> 0]},
              !.nextTimerId = @ + 1]

\* mutant: clearing one timeout clears every pending timeout
clearTimeout_ClearsWindow(s, handle) == [s EXCEPT !.timers = {}]

\* clearTimeout(handle): a handle that names no pending timeout is ignored
clearTimeout(s, handle) ==
    [s EXCEPT !.timers = {t \in @ : t.id # handle}]

\* mutant: the pending close timer is not cancelled
handleOpen_KeepsCloseTimer(s) ==
    [setTimeout(s, TRUE, openDelay) EXCEPT !.openTimerRef = s.nextTimerId]

\* mutant: the open timer is armed with the close delay
handleOpen_CloseDelay(s) ==
    LET c == clearTimeout(s, s.closeTimerRef)
    IN  [setTimeout(c, TRUE, closeDelay) EXCEPT !.openTimerRef = c.nextTimerId]

handleOpen(s) ==
    LET c == clearTimeout(s, s.closeTimerRef)
    IN  [setTimeout(c, TRUE, openDelay) EXCEPT !.openTimerRef = c.nextTimerId]

handleClose(s) ==
    LET c == clearTimeout(s, s.openTimerRef)
    IN  [setTimeout(c, FALSE, closeDelay) EXCEPT !.closeTimerRef = c.nextTimerId]

\* mutant: touch events are handled like any other pointer event
excludeTouch_Never(pointerType, s, handled) == handled

\* excludeTouch(eventHandler)(event): s is the state before the event,
\* handled the state after eventHandler()
excludeTouch(pointerType, s, handled) ==
    IF pointerType = "touch" THEN s ELSE handled

\* Presence: the child is mounted while present holds
Presence(present) == present

\* mutant: forceMount does not keep the content present
ContentPresent_OpenOnly(s) == Open(s)

\* <Presence present={forceMount || context.open}>
ContentPresent(s) == s.forceMount \/ Open(s)

\* HoverCardContent's element is in the tree
ContentMounted(s) == s.mounted /\ Presence(ContentPresent(s))

\* the unmount effect's cleanup
Cleanup(s) ==
    [clearTimeout(clearTimeout(s, s.openTimerRef), s.closeTimerRef)
        EXCEPT !.mounted = FALSE]

OptBool == {Undefined, Some(TRUE), Some(FALSE)}

\* mutant: the timer refs start at the first handle the window gives out
HoverCardInit_RefsStartAtOne(openProp, defaultOpen, forceMount) ==
    [cell |-> Cell(openProp, defaultOpen),
     openTimerRef |-> 1,
     closeTimerRef |-> 1,
     timers |-> {},
     nextTimerId |-> 1,
     mounted |-> TRUE,
     forceMount |-> forceMount,
     hist |-> <<>>]

HoverCardInit(openProp, defaultOpen, forceMount) ==
    [cell |-> Cell(openProp, defaultOpen),
     openTimerRef |-> 0,
     closeTimerRef |-> 0,
     timers |-> {},
     nextTimerId |-> 1,
     mounted |-> TRUE,
     forceMount |-> forceMount,
     hist |-> <<>>]

\* no HoverCard is mounted: nothing of it can act
HoverCardIdle ==
    [HoverCardInit(Undefined, Undefined, FALSE) EXCEPT !.mounted = FALSE]

CanPoint == hc.mounted /\ NumPointerEvents(hc) < MaxPointerEvents

TriggerPointerEnter(pointerType) ==
    /\ CanPoint
    /\ hc' = Log(excludeTouch(pointerType, hc, handleOpen(hc)),
                 PointerEvent("enter", pointerType))
    /\ UNCHANGED notHoverCard

TriggerPointerLeave(pointerType) ==
    /\ CanPoint
    /\ hc' = Log(excludeTouch(pointerType, hc, handleClose(hc)),
                 PointerEvent("leave", pointerType))
    /\ UNCHANGED notHoverCard

ContentPointerEnter(pointerType) ==
    /\ CanPoint
    /\ ContentPresent(hc)
    /\ hc' = Log(excludeTouch(pointerType, hc, handleOpen(hc)),
                 PointerEvent("enter", pointerType))
    /\ UNCHANGED notHoverCard

ContentPointerLeave(pointerType) ==
    /\ CanPoint
    /\ ContentPresent(hc)
    /\ hc' = Log(excludeTouch(pointerType, hc, handleClose(hc)),
                 PointerEvent("leave", pointerType))
    /\ UNCHANGED notHoverCard

\* a timeout whose delay has elapsed runs its callback
TimerFires ==
    \E t \in hc.timers :
        /\ t.left = 0
        /\ hc' = Log(setOpen([hc EXCEPT !.timers = @ \ {t}], t.val), FireEvent(t))
        /\ UNCHANGED notHoverCard

Min(a, b) == IF a <= b THEN a ELSE b

\* time passes, at most until the next pending timeout is due
TimePasses ==
    /\ hc.timers # {}
    /\ \A t \in hc.timers : t.left > 0
    /\ LET next == CHOOSE t \in hc.timers : \A u \in hc.timers : t.left <= u.left
           d == Min(TimeStep, next.left)
       IN  hc' = [hc EXCEPT !.timers =
                    {[t EXCEPT !.left = @ - d, !.waited = @ + d] : t \in @}]
    /\ UNCHANGED notHoverCard

Unmount ==
    /\ hc.mounted
    /\ hc' = Log(Cleanup(hc), UnmountEvent)
    /\ UNCHANGED notHoverCard

\* the owner of a controlled HoverCard renders it with another open prop
OwnerSetsOpen(v) ==
    /\ hc.mounted
    /\ hc.cell.prop # Undefined
    /\ hc.cell.prop # Some(v)
    /\ hc' = [hc EXCEPT !.cell.prop = Some(v)]
    /\ UNCHANGED notHoverCard

(***************************************************************************)
(* ToggleGroup                                                             *)
(***************************************************************************)
TOGGLE_GROUP_NAME == "ToggleGroup"
ITEM_NAME == "ToggleGroupItem"

Range(seq) == {seq[i] : i \in DOMAIN seq}
NoDuplicates(seq) == \A i, j \in DOMAIN seq : i # j => seq[i] # seq[j]

\* the values of the rendered items: item i has value ItemValue(i); items
\* beyond the third repeat a value
ItemValues == <<"a", "b", "c">>
Values == Range(ItemValues)
Items == 1..NumItems
ItemValue(i) == ItemValues[((i - 1) % Len(ItemValues)) + 1]

\* an entry of the call log tg.calls
Call(op, v) == [op |-> op, v |-> v]
Called(s, op, v) == [s EXCEPT !.calls = Append(@, Call(op, v))]

\* (prevValue = []) => ...
OrEmpty(o) == IF o = Undefined THEN <<>> ELSE Get(o)

\* mutant: an activation is ignored while another value is active
SingleOnItemActivate_FirstWins(s, itemValue) ==
    IF CellValue(s.cell) \in {Undefined, Some("")}
    THEN [s EXCEPT !.cell = CellSet(@, itemValue)]
    ELSE s

\* ToggleGroupImplSingle: onItemActivate={setValue}
SingleOnItemActivate(s, itemValue) ==
    [s EXCEPT !.cell = CellSet(@, itemValue)]

\* mutant: only the active value's deactivation clears
SingleOnItemDeactivate_IfActive(s, itemValue) ==
    IF CellValue(s.cell) = Some(itemValue)
    THEN [s EXCEPT !.cell = CellSet(@, "")]
    ELSE s

\* ToggleGroupImplSingle: onItemDeactivate={() => setValue('')}
SingleOnItemDeactivate(s, itemValue) ==
    [s EXCEPT !.cell = CellSet(@, "")]

\* ToggleGroupImplSingle: value={value ? [value] : []}
SingleContextValue(s) ==
    LET value == CellValue(s.cell)
    IN  IF value = Undefined \/ Get(value) = "" THEN <<>> ELSE <<Get(value)>>

\* mutant: an activation replaces the list
handleButtonActivate_Replace(s, itemValue) ==
    [s EXCEPT !.cell = CellSet(@, <<itemValue>>)]

\* ToggleGroupImplMultiple
handleButtonActivate(s, itemValue) ==
    LET prevValue == OrEmpty(CellPrev(s.cell))
    IN  [s EXCEPT !.cell = CellSet(@, Append(prevValue, itemValue))]

handleButtonDeactivate(s, itemValue) ==
    LET prevValue == OrEmpty(CellPrev(s.cell))
    IN  [s EXCEPT !.cell =
            CellSet(@, SelectSeq(prevValue, LAMBDA value : value # itemValue))]

\* ToggleGroupImplMultiple: const [value = [], setValue] = ...; value={value}
MultipleContextValue(s) == OrEmpty(CellValue(s.cell))

\* the ToggleGroupValueProvider's context, by the group's type
ContextValue(s) ==
    IF s.type = "single" THEN SingleContextValue(s) ELSE MultipleContextValue(s)

onItemActivate(s, itemValue) ==
    Called(IF s.type = "single"
           THEN SingleOnItemActivate(s, itemValue)
           ELSE handleButtonActivate(s, itemValue),
           "activate", itemValue)

onItemDeactivate(s, itemValue) ==
    Called(IF s.type = "single"
           THEN SingleOnItemDeactivate(s, itemValue)
           ELSE handleButtonDeactivate(s, itemValue),
           "deactivate", itemValue)

\* mutant: an item is pressed as soon as any value is active
ItemPressed_AnyActive(s, i) == ContextValue(s) # <<>>

\* ToggleGroupItem: pressed = valueContext.value.includes(props.value)
ItemPressed(s, i) == ItemValue(i) \in Range(ContextValue(s))

PressedItems(s) == {i \in Items : ItemPressed(s, i)}

\* mutant: the group's disabled flag does not reach the items
ItemDisabled_OwnOnly(s, i) == i \in s.itemDisabled

\* ToggleGroupItem: disabled = context.disabled || props.disabled
ItemDisabled(s, i) == s.disabled \/ i \in s.itemDisabled

\* ToggleGroupItem: the props it hands to RovingFocusGroup.Item, if the
\* group's rovingFocus lets it render one
RovingFocusItem(s, i) ==
    IF s.rovingFocus
    THEN Some([focusable |-> ~ItemDisabled(s, i), active |-> ItemPressed(s, i)])
    ELSE Undefined

\* ToggleGroupItemImpl: the Toggle's onPressedChange
onPressedChange(s, i, pressed) ==
    IF pressed
    THEN onItemActivate(s, ItemValue(i))
    ELSE onItemDeactivate(s, ItemValue(i))

\* Toggle, with its pressed prop controlled by the item: a press reports the
\* opposite of the pressed state
TogglePress(s, i) == onPressedChange(s, i, ~ItemPressed(s, i))

SingleValues == {Undefined} \cup {Some(v) : v \in Values \cup {""}}
MultipleValues ==
    {Undefined} \cup
    {Some(l) : l \in {m \in UNION {[1..n -> Values] : n \in 0..Len(ItemValues)} :
                        NoDuplicates(m)}}
ValuesOfType(type) == IF type = "single" THEN SingleValues ELSE MultipleValues
\* the values a group of no known type is rendered with are single values
OrSingle(typeProp) == IF typeProp = Some("multiple") THEN "multiple" ELSE "single"

\* ToggleGroupImplSingle / ToggleGroupImplMultiple over ToggleGroupImpl, with
\* the defaults disabled = false, rovingFocus = true and no item disabled
ToggleGroupInit(type, valueProp, defaultValue) ==
    [typeProp |-> Some(type),
     type |-> type,
     rendered |-> TRUE,
     error |-> Undefined,
     cell |-> Cell(valueProp, defaultValue),
     initial |-> defaultValue,
     disabled |-> FALSE,
     rovingFocus |-> TRUE,
     itemDisabled |-> {},
     presses |-> 0,
     calls |-> <<>>]

\* throw new Error(`Missing prop \`type\` expected on \`${TOGGLE_GROUP_NAME}\``):
\* nothing is rendered and no state is created
ToggleGroupThrown(typeProp) ==
    [typeProp |-> typeProp,
     type |-> "",
     rendered |-> FALSE,
     error |-> Some([missingProp |-> "type", on |-> TOGGLE_GROUP_NAME]),
     cell |-> Undefined,
     initial |-> Undefined,
     disabled |-> FALSE,
     rovingFocus |-> FALSE,
     itemDisabled |-> {},
     presses |-> 0,
     calls |-> <<>>]

\* mutant: a group without a known type is rendered as a single group
ToggleGroup_DefaultsToSingle(typeProp, valueProp, defaultValue) ==
    IF typeProp = Some("multiple")
    THEN [ToggleGroupInit("multiple", valueProp, defaultValue)
            EXCEPT !.typeProp = typeProp]
    ELSE [ToggleGroupInit("single", valueProp, defaultValue)
            EXCEPT !.typeProp = typeProp]

\* ToggleGroup: the dispatch on the type prop
ToggleGroup(typeProp, valueProp, defaultValue) ==
    IF typeProp = Some("single")
    THEN [ToggleGroupInit("single", valueProp, defaultValue)
            EXCEPT !.typeProp = typeProp]
    ELSE IF typeProp = Some("multiple")
    THEN [ToggleGroupInit("multiple", valueProp, defaultValue)
            EXCEPT !.typeProp = typeProp]
    ELSE ToggleGroupThrown(typeProp)

\* the type props a group is rendered with: none, the two types, another string
TypeProps == {Undefined, Some("single"), Some("multiple"), Some("radio")}

\* the items rendered with their own disabled prop: none, or the second
ItemsDisabled == {{}, {2}}

\* no ToggleGroup is rendered: nothing of it can act
ToggleGroupIdle ==
    [ToggleGroupInit("single", Undefined, Undefined) EXCEPT !.rendered = FALSE]

Uncontrolled(s) == s.cell.prop = Undefined

\* the group has seen one more press on one of its items
Pressed(s) == [s EXCEPT !.presses = @ + 1]

\* a press on item i; the button of a disabled item takes no press
ItemPress(i) ==
    /\ tg.rendered
    /\ ~ItemDisabled(tg, i)
    /\ Len(tg.calls) < MaxCalls
    /\ tg' = Pressed(TogglePress(tg, i))
    /\ UNCHANGED notToggleGroup

\* the owner of a controlled group renders it with the value the last
\* onValueChange reported
OwnerSetsValue ==
    /\ tg.rendered
    /\ ~Uncontrolled(tg)
    /\ tg.cell.changes # <<>>
    /\ tg.cell.prop # Some(tg.cell.changes[Len(tg.cell.changes)])
    /\ tg' = [tg EXCEPT !.cell.prop = Some(tg.cell.changes[Len(tg.cell.changes)])]
    /\ UNCHANGED notToggleGroup

\* a context consumer calls the single group's onItemActivate / onItemDeactivate
ContextActivate(v) ==
    /\ tg.rendered
    /\ Len(tg.calls) < MaxCalls
    /\ tg' = onItemActivate(tg, v)
    /\ UNCHANGED notToggleGroup

ContextDeactivate(v) ==
    /\ tg.rendered
    /\ Len(tg.calls) < MaxCalls
    /\ tg' = onItemDeactivate(tg, v)
    /\ UNCHANGED notToggleGroup

(***************************************************************************)
(* Checkbox                                                                *)
(***************************************************************************)
CHECKBOX_NAME == "Checkbox"
INDICATOR_NAME == "CheckboxIndicator"

\* type CheckedState = boolean | 'indeterminate'
CheckedStates == {"true", "false", "indeterminate"}
OptChecked == {Undefined} \cup {Some(checked) : checked \in CheckedStates}

isIndeterminate(checked) == checked = "indeterminate"

getState(checked) ==
    IF isIndeterminate(checked) THEN "indeterminate"
    ELSE IF checked = "true" THEN "checked" ELSE "unchecked"

\* const [checked = false, setChecked] = useControllableState(...)
Checked(s) ==
    IF CellValue(s.cell) = Undefined THEN "false" ELSE Get(CellValue(s.cell))

\* const isFormControl = button ? Boolean(button.closest('form')) : true
isFormControl(s) == IF s.button THEN s.inForm ELSE TRUE

\* mutant: an indeterminate box is negated like a boolean
nextChecked_Negate(prevChecked) ==
    IF prevChecked \in {Some("true"), Some("indeterminate")} THEN "false" ELSE "true"

\* (prevChecked) => (isIndeterminate(prevChecked) ? true : !prevChecked)
nextChecked(prevChecked) ==
    IF prevChecked # Undefined /\ isIndeterminate(Get(prevChecked)) THEN "true"
    ELSE IF prevChecked = Some("true") THEN "false" ELSE "true"

\* mutant: the native flag of an indeterminate box is set
NativeChecked_Truthy(checked) == checked # "false"

\* isIndeterminate(checked) ? false : checked
NativeChecked(checked) ==
    IF isIndeterminate(checked) THEN FALSE ELSE checked = "true"

\* what made the Checkbox render: a click (and whether a consumer had stopped
\* its propagation) or the owner's props
ClickCause(stopped) == [click |-> TRUE, stopped |-> stopped]
PropCause == [click |-> FALSE, stopped |-> FALSE]

\* an entry of cb.events: new Event('click', { bubbles }) dispatched on the input
InputEvent(bubbles, cause) == [type |-> "click", bubbles |-> bubbles, cause |-> cause]

\* usePrevious(checked): the value of the previous render, the value itself
\* on the first
usePrevious(s, checked) == IF s.input = Undefined THEN checked ELSE s.prevChecked

\* mutant: the effect dispatches whenever it runs
BubbleInput_DispatchesWhenEffectRuns(s, cause) ==
    LET checked == Checked(s)
        bubbles == ~s.hasConsumerStoppedPropagationRef
        prevChecked == usePrevious(s, checked)
        deps == <<prevChecked, checked, bubbles>>
        runs == s.input = Undefined \/ deps # s.effectDeps
        rendered == [s EXCEPT !.prevChecked = checked, !.effectDeps = deps]
    IN  IF runs
        THEN [rendered EXCEPT
                !.input = Some([checked |-> NativeChecked(checked),
                                indeterminate |-> isIndeterminate(checked)]),
                !.events = Append(@, InputEvent(bubbles, cause))]
        ELSE [rendered EXCEPT
                !.input = IF s.input = Undefined
                          THEN Some([checked |-> NativeChecked(checked),
                                     indeterminate |-> FALSE])
                          ELSE s.input]

\* BubbleInput: one render and its effect
BubbleInput(s, cause) ==
    LET checked == Checked(s)
        bubbles == ~s.hasConsumerStoppedPropagationRef
        prevChecked == usePrevious(s, checked)
        deps == <<prevChecked, checked, bubbles>>
        runs == s.input = Undefined \/ deps # s.effectDeps
        input == IF s.input = Undefined
                 THEN [checked |-> NativeChecked(checked), indeterminate |-> FALSE]
                 ELSE Get(s.input)
        rendered == [s EXCEPT !.input = Some(input),
                              !.prevChecked = checked,
                              !.effectDeps = deps]
    IN  IF runs /\ prevChecked # checked
        THEN [rendered EXCEPT
                !.input = Some([checked |-> NativeChecked(checked),
                                indeterminate |-> isIndeterminate(checked)]),
                !.events = Append(@, InputEvent(bubbles, cause))]
        ELSE rendered

\* Checkbox: one render; {isFormControl && <BubbleInput ... />}
CheckboxRender(s, cause) ==
    IF isFormControl(s)
    THEN BubbleInput(s, cause)
    ELSE [s EXCEPT !.input = Undefined, !.effectDeps = <<>>]

\* an entry of cb.clicks: a click on the button, whether a consumer stopped
\* its propagation, and whether it propagated past the button
ButtonClick(stopped, propagated) == [stopped |-> stopped, propagated |-> propagated]

\* the button's onClick
onClick(s, isPropagationStopped) ==
    LET set == [s EXCEPT !.cell = CellSet(s.cell, nextChecked(CellPrev(s.cell)))]
        ref == IF isFormControl(s)
               THEN [set EXCEPT !.hasConsumerStoppedPropagationRef = isPropagationStopped]
               ELSE set
    IN  [ref EXCEPT !.clicks = Append(@,
            ButtonClick(isPropagationStopped,
                        ~isPropagationStopped /\ ~isFormControl(s)))]

\* the first render: button is still null
CheckboxInit(checkedProp, defaultChecked, disabled, inForm, forceMount) ==
    CheckboxRender(
        [cell |-> Cell(checkedProp, defaultChecked),
         defaultChecked |-> defaultChecked,
         disabled |-> disabled,
         inForm |-> inForm,
         forceMount |-> forceMount,
         mounted |-> TRUE,
         button |-> FALSE,
         hasConsumerStoppedPropagationRef |-> FALSE,
         input |-> Undefined,
         prevChecked |-> "false",
         effectDeps |-> <<>>,
         events |-> <<>>,
         clicks |-> <<>>,
         pending |-> Undefined,
         propChanges |-> 0],
        PropCause)

\* no Checkbox is mounted: nothing of it can act
CheckboxIdle ==
    [CheckboxInit(Undefined, Undefined, FALSE, FALSE, FALSE) EXCEPT !.mounted = FALSE]

\* <Presence present={forceMount || isIndeterminate(context.state) ||
\*                    context.state === true}>
IndicatorPresent(s) ==
    s.forceMount \/ isIndeterminate(Checked(s)) \/ Checked(s) = "true"

\* CheckboxIndicator's element is in the tree
IndicatorMounted(s) == s.mounted /\ Presence(IndicatorPresent(s))

\* the ref callback hands the button element to setButton
SetButton ==
    /\ cb.mounted
    /\ ~cb.button
    /\ cb' = CheckboxRender([cb EXCEPT !.button = TRUE], PropCause)
    /\ UNCHANGED notCheckbox

\* a click on the button; an uncontrolled Checkbox renders with its new state,
\* a controlled one waits for its owner
Click(isPropagationStopped) ==
    /\ cb.mounted
    /\ cb.button
    /\ ~cb.disabled
    /\ Len(cb.clicks) < MaxClicks
    /\ LET handled == onClick(cb, isPropagationStopped)
       IN  cb' = IF cb.cell.prop = Undefined
                 THEN CheckboxRender(handled, ClickCause(isPropagationStopped))
                 ELSE [handled EXCEPT !.pending = Some(isPropagationStopped)]
    /\ UNCHANGED notCheckbox

\* the owner of a controlled Checkbox renders it with another checked prop,
\* in answer to the pending click if there is one, else of its own accord
OwnerSetsChecked(checked) ==
    /\ cb.mounted
    /\ cb.button
    /\ cb.cell.prop # Undefined
    /\ cb.cell.prop # Some(checked)
    /\ cb.propChanges < MaxPropChanges
    /\ cb' = CheckboxRender(
                [cb EXCEPT !.cell.prop = Some(checked),
                           !.pending = Undefined,
                           !.propChanges = @ + 1],
                IF cb.pending # Undefined
                THEN ClickCause(Get(cb.pending)) ELSE PropCause)
    /\ UNCHANGED notCheckbox

\* the owner renders the Checkbox again with the same props; a pending click
\* is thereby answered
Rerender ==
    /\ cb.mounted
    /\ cb.button
    /\ cb' = CheckboxRender([cb EXCEPT !.pending = Undefined], PropCause)
    /\ UNCHANGED notCheckbox

(***************************************************************************)
(* Scoped contexts                                                         *)
(***************************************************************************)
\* createContext(rootComponentName, defaultContext?)
createContext(rootComponentName, defaultContext) ==
    [rootComponentName |-> rootComponentName, defaultContext |-> defaultContext]

\* useContext(consumerName, scope): the value of the nearest provider, else
\* the context's default, else an error naming the consumer and the root
useContext(context, consumerName, provided) ==
    IF provided # Undefined
    THEN [value |-> provided, error |-> Undefined]
    ELSE IF context.defaultContext # Undefined
    THEN [value |-> context.defaultContext, error |-> Undefined]
    ELSE [value |-> Undefined,
          error |-> Some([consumer |-> consumerName,
                          within |-> context.rootComponentName])]

\* mutant: the Checkbox context is created with a default value
CheckboxContext_WithDefault == createContext(CHECKBOX_NAME, Some("default"))

HoverCardContext == createContext(HOVERCARD_NAME, Undefined)
ToggleGroupValueContext == createContext(TOGGLE_GROUP_NAME, Undefined)
ToggleGroupContext == createContext(TOGGLE_GROUP_NAME, Undefined)
CheckboxContext == createContext(CHECKBOX_NAME, Undefined)

\* the context reads a consumer makes when it renders; provided is the value
\* of its ancestor provider, undefined if it has none
HoverCardTrigger(provided) == useContext(HoverCardContext, TRIGGER_NAME, provided)
HoverCardContent(provided) == useContext(HoverCardContext, CONTENT_NAME, provided)
CheckboxIndicator(provided) == useContext(CheckboxContext, INDICATOR_NAME, provided)

\* ToggleGroupItem reads the value context, then the group context
ToggleGroupItem(provided) ==
    LET valueContext == useContext(ToggleGroupValueContext, ITEM_NAME, provided)
    IN  IF valueContext.error # Undefined
        THEN valueContext
        ELSE useContext(ToggleGroupContext, ITEM_NAME, provided)

Consumers == {TRIGGER_NAME, CONTENT_NAME, ITEM_NAME, INDICATOR_NAME}

RenderOf(consumer, provided) ==
    IF consumer = TRIGGER_NAME THEN HoverCardTrigger(provided)
    ELSE IF consumer = CONTENT_NAME THEN HoverCardContent(provided)
    ELSE IF consumer = ITEM_NAME THEN ToggleGroupItem(provided)
    ELSE CheckboxIndicator(provided)

\* an entry of ctx.renders
ConsumerRender(consumer, provided) ==
    [consumer |-> consumer, provided |-> provided,
     result |-> RenderOf(consumer, provided)]

ConsumersInit == [bare |-> TRUE, renders |-> <<>>]

\* no consumer is rendered on its own
ConsumersIdle == [bare |-> FALSE, renders |-> <<>>]

\* a consumer is rendered, under a provider of its context or under none
RenderConsumer(consumer, provided) ==
    /\ ctx.bare
    /\ Len(ctx.renders) < MaxRenders
    /\ ctx' = [ctx EXCEPT !.renders = Append(@, ConsumerRender(consumer, provided))]
    /\ UNCHANGED notConsumers

(***************************************************************************)
(* Two instances of a component, side by side under one window             *)
(***************************************************************************)
\* the provider a consumer inside instance k reads: its nearest ancestor
NearestProvider(k) == k

\* instance s as its handlers see it when other is mounted too: the window
\* holds the pending timeouts of both and hands out the next handle
InWindow(s, other) == [s EXCEPT !.timers = @ \cup other.timers]

\* after a handler of s ran in the window and left the instance as r:
\* s has its own timeouts that are still pending and the one it armed
Own(r, other) ==
    [r EXCEPT !.timers = {t \in @ : t.id \notin {u.id : u \in other.timers}}]

\* ... and other has those of its timeouts that are still pending
Rest(other, r) ==
    [other EXCEPT !.timers = @ \cap r.timers, !.nextTimerId = r.nextTimerId]

Both(p, r, other) == [q \in 1..2 |-> IF q = p THEN Own(r, other) ELSE Rest(other, r)]

PairHandleOpen(insts, p) ==
    Both(p, handleOpen(InWindow(insts[p], insts[3 - p])), insts[3 - p])

PairHandleClose(insts, p) ==
    Both(p, handleClose(InWindow(insts[p], insts[3 - p])), insts[3 - p])

PairCleanup(insts, p) ==
    Both(p, Cleanup(InWindow(insts[p], insts[3 - p])), insts[3 - p])

HoverCards == <<hc, hc2>>
ToggleGroups == <<tg, tg2>>

CanPointPair(k) ==
    /\ HoverCards[k].mounted
    /\ NumPointerEvents(hc) + NumPointerEvents(hc2) < MaxPointerEvents

\* the pointer enters the trigger of HoverCard k
PairPointerEnter(k) ==
    /\ CanPointPair(k)
    /\ LET after == PairHandleOpen(HoverCards, NearestProvider(k))
           logged == [after EXCEPT ![k] = Log(@, PointerEvent("enter", "mouse"))]
       IN  hc' = logged[1] /\ hc2' = logged[2]
    /\ UNCHANGED notHoverCards

\* the pointer leaves the trigger of HoverCard k
PairPointerLeave(k) ==
    /\ CanPointPair(k)
    /\ LET after == PairHandleClose(HoverCards, NearestProvider(k))
           logged == [after EXCEPT ![k] = Log(@, PointerEvent("leave", "mouse"))]
       IN  hc' = logged[1] /\ hc2' = logged[2]
    /\ UNCHANGED notHoverCards

\* a timeout of HoverCard k runs its callback
PairTimerFires(k) ==
    /\ \E t \in HoverCards[k].timers :
        /\ t.left = 0
        /\ LET s == HoverCards[k]
               fired == Log(setOpen([s EXCEPT !.timers = @ \ {t}], t.val), FireEvent(t))
               after == [HoverCards EXCEPT ![k] = fired]
           IN  hc' = after[1] /\ hc2' = after[2]
    /\ UNCHANGED notHoverCards

\* time passes for the window, at most until its next timeout is due
PairTimePasses ==
    /\ hc.timers \cup hc2.timers # {}
    /\ \A t \in hc.timers \cup hc2.timers : t.left > 0
    /\ LET all == hc.timers \cup hc2.timers
           next == CHOOSE t \in all : \A u \in all : t.left <= u.left
           d == Min(TimeStep, next.left)
       IN  /\ hc' = [hc EXCEPT !.timers =
                        {[t EXCEPT !.left = @ - d, !.waited = @ + d] : t \in @}]
           /\ hc2' = [hc2 EXCEPT !.timers =
                        {[t EXCEPT !.left = @ - d, !.waited = @ + d] : t \in @}]
    /\ UNCHANGED notHoverCards

\* HoverCard k unmounts
PairUnmount(k) ==
    /\ HoverCards[k].mounted
    /\ LET after == PairCleanup(HoverCards, k)
           logged == [after EXCEPT ![k] = Log(@, UnmountEvent)]
       IN  hc' = logged[1] /\ hc2' = logged[2]
    /\ UNCHANGED notHoverCards

\* a press on item i of ToggleGroup k
PairItemPress(k, i) ==
    /\ tg.rendered /\ tg2.rendered
    /\ ~ItemDisabled(ToggleGroups[NearestProvider(k)], i)
    /\ Len(tg.calls) + Len(tg2.calls) < MaxCalls
    /\ LET called == [ToggleGroups EXCEPT ![NearestProvider(k)] = TogglePress(@, i)]
           pressed == [called EXCEPT ![k] = Pressed(@)]
       IN  tg' = pressed[1] /\ tg2' = pressed[2]
    /\ UNCHANGED notToggleGroups

(***************************************************************************)
(* Specifications                                                          *)
(***************************************************************************)
\* no second instance is mounted and no consumer is rendered on its own
OthersIdle ==
    /\ hc2 = HoverCardIdle
    /\ tg2 = ToggleGroupIdle
    /\ ctx = ConsumersIdle

InitHoverCard ==
    /\ \E openProp \in OptBool, defaultOpen \in OptBool, forceMount \in BOOLEAN :
          hc = HoverCardInit(openProp, defaultOpen, forceMount)
    /\ tg = ToggleGroupIdle
    /\ cb = CheckboxIdle
    /\ OthersIdle

NextHoverCard ==
    \/ \E pointerType \in PointerTypes : TriggerPointerEnter(pointerType)
    \/ \E pointerType \in PointerTypes : TriggerPointerLeave(pointerType)
    \/ \E pointerType \in PointerTypes : ContentPointerEnter(pointerType)
    \/ \E pointerType \in PointerTypes : ContentPointerLeave(pointerType)
    \/ TimerFires
    \/ TimePasses
    \/ Unmount
    \/ \E v \in BOOLEAN : OwnerSetsOpen(v)

SpecHoverCard == InitHoverCard /\ [][NextHoverCard]_vars

\* a group is rendered controlled (value) or uncontrolled (defaultValue)
InitToggleGroup ==
    /\ hc = HoverCardIdle
    /\ cb = CheckboxIdle
    /\ OthersIdle
    /\ \E type \in {"single", "multiple"} :
       \E valueProp \in ValuesOfType(type), defaultValue \in ValuesOfType(type) :
       \E disabled \in BOOLEAN, rovingFocus \in BOOLEAN,
          itemDisabled \in ItemsDisabled :
          /\ valueProp = Undefined \/ defaultValue = Undefined
          /\ tg = [ToggleGroupInit(type, valueProp, defaultValue)
                    EXCEPT !.disabled = disabled,
                           !.rovingFocus = rovingFocus,
                           !.itemDisabled = itemDisabled]

NextToggleGroup ==
    \/ \E i \in Items : ItemPress(i)
    \/ OwnerSetsValue

SpecToggleGroup == InitToggleGroup /\ [][NextToggleGroup]_vars

InitToggleCalls ==
    /\ hc = HoverCardIdle
    /\ cb = CheckboxIdle
    /\ OthersIdle
    /\ \E valueProp \in SingleValues, defaultValue \in SingleValues :
          /\ valueProp = Undefined \/ defaultValue = Undefined
          /\ tg = ToggleGroupInit("single", valueProp, defaultValue)

NextToggleCalls ==
    \/ \E v \in Values : ContextActivate(v)
    \/ \E v \in Values : ContextDeactivate(v)

SpecToggleCalls == InitToggleCalls /\ [][NextToggleCalls]_vars

\* a Checkbox is rendered controlled (checked) or uncontrolled (defaultChecked)
InitCheckbox ==
    /\ hc = HoverCardIdle
    /\ tg = ToggleGroupIdle
    /\ OthersIdle
    /\ \E checkedProp \in OptChecked, defaultChecked \in OptChecked,
          disabled \in BOOLEAN, inForm \in BOOLEAN, forceMount \in BOOLEAN :
          /\ checkedProp = Undefined \/ defaultChecked = Undefined
          /\ cb = CheckboxInit(checkedProp, defaultChecked, disabled, inForm, forceMount)

NextCheckbox ==
    \/ SetButton
    \/ \E isPropagationStopped \in BOOLEAN : Click(isPropagationStopped)
    \/ \E checked \in CheckedStates : OwnerSetsChecked(checked)
    \/ Rerender

SpecCheckbox == InitCheckbox /\ [][NextCheckbox]_vars

\* a ToggleGroup is rendered with any type prop
InitToggleGroupTyped ==
    /\ hc = HoverCardIdle
    /\ cb = CheckboxIdle
    /\ OthersIdle
    /\ \E typeProp \in TypeProps :
       \E valueProp \in ValuesOfType(OrSingle(typeProp)),
          defaultValue \in ValuesOfType(OrSingle(typeProp)) :
          /\ valueProp = Undefined \/ defaultValue = Undefined
          /\ tg = ToggleGroup(typeProp, valueProp, defaultValue)

InitConsumers ==
    /\ hc = HoverCardIdle
    /\ tg = ToggleGroupIdle
    /\ cb = CheckboxIdle
    /\ hc2 = HoverCardIdle
    /\ tg2 = ToggleGroupIdle
    /\ ctx = ConsumersInit

NextConsumers ==
    \E consumer \in Consumers, provided \in {Undefined, Some("provided")} :
        RenderConsumer(consumer, provided)

\* two HoverCards, or two ToggleGroups, are rendered side by side
InitInstances ==
    /\ cb = CheckboxIdle
    /\ ctx = ConsumersIdle
    /\ \/ /\ \E openProp \in OptBool : hc = HoverCardInit(openProp, Undefined, FALSE)
          /\ hc2 = HoverCardInit(Undefined, Undefined, FALSE)
          /\ tg = ToggleGroupIdle
          /\ tg2 = ToggleGroupIdle
       \/ /\ hc = HoverCardIdle
          /\ hc2 = HoverCardIdle
          /\ \E type \in {"single", "multiple"} :
                tg = ToggleGroupInit(type, Undefined, Undefined)
          /\ \E type \in {"single", "multiple"} :
                tg2 = ToggleGroupInit(type, Undefined, Undefined)

NextInstances ==
    \/ \E k \in 1..2 : PairPointerEnter(k)
    \/ \E k \in 1..2 : PairPointerLeave(k)
    \/ \E k \in 1..2 : PairTimerFires(k)
    \/ PairTimePasses
    \/ \E k \in 1..2 : PairUnmount(k)
    \/ \E k \in 1..2, i \in Items : PairItemPress(k, i)

SpecInstances == InitInstances /\ [][NextInstances]_vars

\* one of the components is rendered, or consumers on their own
Init ==
    \/ InitHoverCard
    \/ InitToggleGroupTyped
    \/ InitCheckbox
    \/ InitConsumers

Next ==
    \/ NextHoverCard
    \/ NextToggleGroup
    \/ NextCheckbox
    \/ NextConsumers

Spec == Init /\ [][Next]_vars

(***************************************************************************)
(* Properties of the HoverCard                                             *)
(***************************************************************************)
PendingOpenTimers(s) == {t \in s.timers : t.val}
PendingCloseTimers(s) == {t \in s.timers : ~t.val}
PointerHist(s) == SelectSeq(s.hist, IsPointerEvent)
NumFires(s, val) ==
    Cardinality({i \in DOMAIN s.hist : s.hist[i].ev = "fire" /\ s.hist[i].val = val})
IsMouse(e, kind) == e.ev = kind /\ ~e.touch
IsFire(e) == e.ev = "fire"

\* C1: in every reachable state at most one open timer and at most one
\* close timer is pending.
C1_AtMostOneTimerOfEachKind ==
    /\ Cardinality(PendingOpenTimers(hc)) <= 1
    /\ Cardinality(PendingCloseTimers(hc)) <= 1

\* C2: after non-touch pointer events only the timer armed by the last of
\* them can be pending: after an enter no close timer and no earlier open
\* timer, after a leave no open timer and no earlier close timer.
C2_OnlyLastIntentLive ==
    LET p == PointerHist(hc)
    IN  (p # <<>> /\ \A i \in DOMAIN p : ~p[i].touch) =>
            /\ p[Len(p)].ev = "enter" =>
                  \A t \in hc.timers : t.val /\ t.id = hc.openTimerRef
            /\ p[Len(p)].ev = "leave" =>
                  \A t \in hc.timers : ~t.val /\ t.id = hc.closeTimerRef

\* the history starts enter, leave, enter (no touch) and only timers fire
\* after that
EnterLeaveEnter ==
    /\ Len(hc.hist) >= 3
    /\ IsMouse(hc.hist[1], "enter")
    /\ IsMouse(hc.hist[2], "leave")
    /\ IsMouse(hc.hist[3], "enter")
    /\ \A i \in 4..Len(hc.hist) : IsFire(hc.hist[i])

\* C3: after enter, leave, enter with no timer firing in between, no
\* setOpen(false) call is ever made and, once no timer is pending, exactly
\* one setOpen(true) call has been made.
C3_EnterLeaveEnterOpensOnce ==
    EnterLeaveEnter =>
        /\ NumFires(hc, FALSE) = 0
        /\ NumFires(hc, TRUE) <= 1
        /\ hc.timers = {} => NumFires(hc, TRUE) = 1

C3_Witness ==
    /\ EnterLeaveEnter
    /\ hc.timers = {}
    /\ Len(hc.hist) = 4
    /\ hc.hist[4].val

\* C4: once the HoverCard is unmounted no timer fires, i.e. setOpen is not
\* called after the unmount.
C4_NoSetOpenAfterUnmount ==
    \A i, j \in DOMAIN hc.hist :
        (i < j /\ hc.hist[i].ev = "unmount") => ~IsFire(hc.hist[j])

C6_TouchChangesNothing ==
    [][(/\ Len(hc'.hist) = Len(hc.hist) + 1
        /\ hc'.hist[Len(hc'.hist)].touch)
            => hc' = [hc EXCEPT !.hist = hc'.hist]]_vars

\* a touch leave arrived while the open timer of a mouse enter was pending,
\* and the timer is still pending
C6_Witness ==
    /\ Len(hc.hist) = 2
    /\ IsMouse(hc.hist[1], "enter")
    /\ hc.hist[2].ev = "leave"
    /\ hc.hist[2].touch
    /\ Cardinality(PendingOpenTimers(hc)) = 1
    /\ PendingCloseTimers(hc) = {}

(***************************************************************************)
(* Properties of the ToggleGroup                                           *)
(***************************************************************************)
IsActivate(c) == c.op = "activate"
IsDeactivate(c) == c.op = "deactivate"

\* the index of the last activate call, 0 when there is none
LastActivation(calls) ==
    IF \E k \in DOMAIN calls : IsActivate(calls[k])
    THEN CHOOSE k \in DOMAIN calls :
            /\ IsActivate(calls[k])
            /\ \A m \in DOMAIN calls : m > k => ~IsActivate(calls[m])
    ELSE 0

\* the value the last activation made active; before any activation, the
\* value the group was rendered with
LastActivated(s) ==
    IF LastActivation(s.calls) = 0
    THEN IF s.initial \in {Undefined, Some("")} THEN <<>> ELSE <<Get(s.initial)>>
    ELSE <<s.calls[LastActivation(s.calls)].v>>

\* C7: single, uncontrolled: the value is empty or the last-activated value,
\* and it is the last-activated value when no deactivate call followed that
\* activation; activate(a) then activate(b) yields b only.
C7_SingleEmptyOrLastActivated ==
    (tg.type = "single" /\ Uncontrolled(tg)) =>
        /\ ContextValue(tg) \in {<<>>, LastActivated(tg)}
        /\ (\A m \in DOMAIN tg.calls :
                m > LastActivation(tg.calls) => ~IsDeactivate(tg.calls[m]))
              => ContextValue(tg) = LastActivated(tg)
        /\ tg.calls = <<Call("activate", "a"), Call("activate", "b")>>
              => ContextValue(tg) = <<"b">>

C7_Witness ==
    /\ tg.type = "single"
    /\ Uncontrolled(tg)
    /\ tg.calls = <<Call("activate", "a"), Call("activate", "b")>>
    /\ ContextValue(tg) = <<"b">>

RECURSIVE ReplayCalls(_, _)
\* the calls replayed on a set: activate is union, deactivate is difference
ReplayCalls(calls, set) ==
    IF calls = <<>>
    THEN set
    ELSE LET c == calls[Len(calls)]
             before == ReplayCalls(SubSeq(calls, 1, Len(calls) - 1), set)
         IN  IF IsActivate(c) THEN before \cup {c.v} ELSE before \ {c.v}

C9_SingleDeactivateClears ==
    (/\ tg.type = "single"
     /\ Uncontrolled(tg)
     /\ tg.calls # <<>>
     /\ IsDeactivate(tg.calls[Len(tg.calls)])) =>
        /\ CellValue(tg.cell) = Some("")
        /\ ContextValue(tg) = <<>>

\* "a" was active when deactivate("b") was called
C9_Witness ==
    /\ tg.type = "single"
    /\ Uncontrolled(tg)
    /\ tg.calls = <<Call("activate", "a"), Call("deactivate", "b")>>
    /\ ContextValue(tg) = <<>>

\* C10: single: the value list given to the items has at most one element,
\* the pressed items all have one value, and after an activation of an
\* uncontrolled group exactly the items of the activated value are pressed.
C10_SingleAtMostOnePressed ==
    tg.type = "single" =>
        /\ Len(ContextValue(tg)) <= 1
        /\ \A i, j \in PressedItems(tg) : ItemValue(i) = ItemValue(j)
        /\ (/\ Uncontrolled(tg)
            /\ tg.calls # <<>>
            /\ IsActivate(tg.calls[Len(tg.calls)])) =>
              PressedItems(tg) =
                  {i \in Items : ItemValue(i) = tg.calls[Len(tg.calls)].v}

\* item 1 ("a") was pressed, then item 2 ("b"): only item 2 is pressed
C10_Witness ==
    /\ tg.type = "single"
    /\ Uncontrolled(tg)
    /\ tg.calls = <<Call("activate", "a"), Call("activate", "b")>>
    /\ 2 \in PressedItems(tg)
    /\ 1 \notin PressedItems(tg)

\* the step runs the callback of a HoverCard timer
IsFireStep ==
    /\ Len(hc'.hist) = Len(hc.hist) + 1
    /\ hc'.hist[Len(hc'.hist)].ev = "fire"

\* the handles of the pending timers a step without a callback removed
Cancelled == {t.id : t \in hc.timers} \ {t.id : t \in hc'.timers}

\* the pending timers of a set that a handle names
Named(timers, handle) == {t.id : t \in {u \in timers : u.id = handle}}

\* C18: a cancellation removes the pending timer of its kind that the ref
\* names and no other: with a ref whose timer has fired, was cancelled or was
\* never armed (0) every pending timer stays as it is
C18_CancelIsIdempotent ==
    [][Len(hc'.hist) = Len(hc.hist) + 1 =>
        LET e == hc'.hist[Len(hc'.hist)]
        IN  /\ (e.ev = "enter" /\ ~e.touch) =>
                Cancelled = Named(PendingCloseTimers(hc), hc.closeTimerRef)
            /\ (e.ev = "leave" /\ ~e.touch) =>
                Cancelled = Named(PendingOpenTimers(hc), hc.openTimerRef)
            /\ e.ev = "unmount" =>
                Cancelled = Named(PendingCloseTimers(hc), hc.closeTimerRef)
                            \cup Named(PendingOpenTimers(hc), hc.openTimerRef)
            /\ \A t \in hc.timers : t.id \notin Cancelled /\ e.ev # "fire" => t \in hc'.timers
            /\ \A t \in hc.timers : t.id # 0]_vars

\* after its open timer fired the HoverCard was left twice: the second leave
\* cancelled with a stale open ref while a close timer was pending
C18_Witness ==
    /\ Len(hc.hist) = 4
    /\ hc.hist[1].ev = "enter" /\ hc.hist[2].ev = "fire"
    /\ hc.hist[3].ev = "leave" /\ hc.hist[4].ev = "leave"
    /\ ~hc.hist[3].touch /\ ~hc.hist[4].touch
    /\ Cardinality(hc.timers) = 2

(***************************************************************************)
(* Properties of the Checkbox                                              *)
(***************************************************************************)
\* the step is a click on the button
IsClickStep == Len(cb'.clicks) = Len(cb.clicks) + 1
LastClick(s) == s.clicks[Len(s.clicks)]
LastEvent(s) == s.events[Len(s.events)]
LastChange(c) == c.changes[Len(c.changes)]

\* the native flags the hidden input must show for a logical state
Mirrors(input, checked) ==
    /\ input.checked = (checked = "true")
    /\ input.indeterminate = (checked = "indeterminate")

\* C12: a click on an uncontrolled Checkbox takes Unchecked to Checked,
\* Checked to Unchecked and Indeterminate to Checked; no click produces
\* Indeterminate from a state that is not Indeterminate, nor asks for it
C12_ClickTransitions ==
    [][IsClickStep =>
        /\ LastChange(cb'.cell) # "indeterminate"
        /\ cb.cell.prop = Undefined =>
            /\ Checked(cb) = "false" => Checked(cb') = "true"
            /\ Checked(cb) = "true" => Checked(cb') = "false"
            /\ Checked(cb) = "indeterminate" => Checked(cb') = "true"
            /\ Checked(cb) # "indeterminate" => Checked(cb') # "indeterminate"]_vars

\* an uncontrolled Checkbox that started Indeterminate has been clicked once
C12_Witness ==
    /\ cb.mounted
    /\ cb.defaultChecked = Some("indeterminate")
    /\ Len(cb.clicks) = 1
    /\ Checked(cb) = "true"

\* C13: whenever the logical checked state changes while the hidden input is
\* rendered, the input's native checked flag becomes the logical value with
\* Indeterminate as false, its native indeterminate flag is true exactly for
\* Indeterminate, and exactly one event is dispatched; an uncontrolled
\* Checkbox with defaultChecked false, once clicked, is Checked with the
\* native flag true and a bubbling event
C13_InputMirrorsChange ==
    [][/\ (Checked(cb') # Checked(cb) /\ cb.input # Undefined /\ cb'.input # Undefined) =>
            /\ Mirrors(Get(cb'.input), Checked(cb'))
            /\ Len(cb'.events) = Len(cb.events) + 1
            /\ SubSeq(cb'.events, 1, Len(cb.events)) = cb.events
            /\ LastEvent(cb').type = "click"
       /\ (/\ IsClickStep
           /\ cb.cell.prop = Undefined
           /\ cb.defaultChecked = Some("false")
           /\ cb.clicks = <<>>
           /\ cb.inForm
           /\ ~LastClick(cb').stopped) =>
            /\ Checked(cb') = "true"
            /\ Get(cb'.input).checked
            /\ cb'.events = <<InputEvent(TRUE, ClickCause(FALSE))>>]_vars

\* the input has mirrored a click's change and then a change to Indeterminate
C13_Witness ==
    /\ cb.mounted
    /\ Len(cb.events) = 2
    /\ cb.events[1].cause.click
    /\ cb.input = Some([checked |-> FALSE, indeterminate |-> TRUE])

\* C14: an event whose change did not originate from a click a consumer had
\* stopped is dispatched as bubbling
C14_BubblesUnlessClickStopped ==
    \A i \in DOMAIN cb.events :
        ~(cb.events[i].cause.click /\ cb.events[i].cause.stopped)
            => cb.events[i].bubbles

(***************************************************************************)
(* Properties of the controllable state, the items and the contexts        *)
(***************************************************************************)
\* the step calls onItemActivate or onItemDeactivate of the group
IsCallStep == tg.rendered /\ Len(tg'.calls) = Len(tg.calls) + 1

\* the value a call asks a controlled group to take
AttemptedValue(s, call) ==
    IF s.type = "single"
    THEN IF call.op = "activate" THEN call.v ELSE ""
    ELSE IF call.op = "activate"
         THEN Append(Get(s.cell.prop), call.v)
         ELSE SelectSeq(Get(s.cell.prop), LAMBDA value : value # call.v)

\* the value a click asks a controlled Checkbox to take
AttemptedChecked(checked) == IF checked = "true" THEN "false" ELSE "true"

\* the cell stays at its external value and reports the attempted value
ReportsOnly(c, d, attempted) ==
    /\ d.prop = c.prop
    /\ CellValue(d) = c.prop
    /\ d.changes = Append(c.changes, attempted)

\* C11: while an external value is supplied, a setValue call (a HoverCard
\* timer firing, a ToggleGroup item call, a Checkbox click) leaves the
\* effective value at the external value and invokes onChange with the
\* attempted value
C11_ControlledCellReportsOnly ==
    [][/\ (IsFireStep /\ hc.cell.prop # Undefined) =>
            ReportsOnly(hc.cell, hc'.cell, hc'.hist[Len(hc'.hist)].val)
       /\ (IsCallStep /\ tg.cell.prop # Undefined) =>
            ReportsOnly(tg.cell, tg'.cell,
                        AttemptedValue(tg, tg'.calls[Len(tg'.calls)]))
       /\ (IsClickStep /\ cb.cell.prop # Undefined) =>
            ReportsOnly(cb.cell, cb'.cell, AttemptedChecked(Get(cb.cell.prop)))]_vars

\* the open timer of a HoverCard controlled closed has fired
C11_Witness ==
    /\ hc.cell.prop = Some(FALSE)
    /\ hc.cell.changes = <<TRUE>>
    /\ ~Open(hc)

\* C15: a ToggleGroup rendered with a type prop other than 'single' and
\* 'multiple' throws and creates no value state; one rendered with 'single'
\* or 'multiple' does not throw and has its value state
C15_TypeIsRequired ==
    (tg.rendered \/ tg.error # Undefined) =>
        /\ tg.error # Undefined <=> tg.typeProp \notin {Some("single"), Some("multiple")}
        /\ tg.error # Undefined =>
            /\ tg.error = Some([missingProp |-> "type", on |-> "ToggleGroup"])
            /\ ~tg.rendered
            /\ tg.cell = Undefined
        /\ tg.error = Undefined =>
            /\ tg.rendered
            /\ tg.cell # Undefined
            /\ tg.type = Get(tg.typeProp)

\* a ToggleGroup was rendered without a type prop
C15_Witness == tg.typeProp = Undefined /\ tg.error # Undefined

\* the set of values the group's current value holds
GroupValueSet(s) ==
    LET value == CellValue(s.cell)
    IN  IF value = Undefined THEN {}
        ELSE IF s.type = "single"
        THEN IF Get(value) = "" THEN {} ELSE {Get(value)}
        ELSE Range(Get(value))

\* item i is pressed and disabled as the group's value and the disabled flags say
DerivedFlags(s, i) ==
    /\ ItemPressed(s, i) <=> ItemValue(i) \in GroupValueSet(s)
    /\ ItemDisabled(s, i) <=> (s.disabled \/ i \in s.itemDisabled)

\* what item i hands to roving focus when it registers
Registration(s, i) ==
    Some([focusable |-> ~(s.disabled \/ i \in s.itemDisabled),
          active |-> ItemValue(i) \in GroupValueSet(s)])

\* C16 as stated: every item is pressed exactly when its value is in the
\* group's value, disabled exactly when the group or the item is disabled,
\* and registered with roving focus as active = pressed, focusable = not
\* disabled
C16_ItemDerivation ==
    \A i \in Items :
        /\ DerivedFlags(tg, i)
        /\ RovingFocusItem(tg, i) = Registration(tg, i)

\* C16 amended: the item registers with roving focus, as active = pressed and
\* focusable = not disabled, exactly when the group's rovingFocus is on
C16_ItemDerivationUnderRovingFocus ==
    \A i \in Items :
        /\ DerivedFlags(tg, i)
        /\ tg.rovingFocus => RovingFocusItem(tg, i) = Registration(tg, i)
        /\ ~tg.rovingFocus => RovingFocusItem(tg, i) = Undefined

\* a group with roving focus and a disabled item has had an item pressed
C16_Witness ==
    /\ tg.rendered
    /\ tg.rovingFocus
    /\ tg.itemDisabled = {2}
    /\ ItemPressed(tg, 1)
    /\ tg.calls # <<>>

\* C19: HoverCardContent is mounted exactly when forceMount is set or open is
\* true; CheckboxIndicator is mounted exactly when forceMount is set or the
\* state is Checked or Indeterminate
C19_PresenceGates ==
    /\ hc.mounted =>
        (ContentMounted(hc) <=> (hc.forceMount \/ CellValue(hc.cell) = Some(TRUE)))
    /\ cb.mounted =>
        (IndicatorMounted(cb) <=>
            (cb.forceMount \/ CellValue(cb.cell) \in {Some("true"), Some("indeterminate")}))

\* a closed HoverCard with forceMount has taken an event
C19_Witness ==
    /\ hc.mounted
    /\ hc.forceMount
    /\ CellValue(hc.cell) = Some(FALSE)
    /\ hc.hist # <<>>

\* the root component whose provider a consumer expects
ExpectedProvider(consumer) ==
    IF consumer \in {"HoverCardTrigger", "HoverCardContent"} THEN "HoverCard"
    ELSE IF consumer = "ToggleGroupItem" THEN "ToggleGroup"
    ELSE "Checkbox"

\* C20: a consumer rendered with no ancestor provider gets no context value
\* and fails with an error naming the consumer and the expected provider
C20_MissingProviderFails ==
    \A i \in DOMAIN ctx.renders :
        LET render == ctx.renders[i]
        IN  render.provided = Undefined =>
                /\ render.result.value = Undefined
                /\ render.result.error =
                    Some([consumer |-> render.consumer,
                          within |-> ExpectedProvider(render.consumer)])

\* a CheckboxIndicator and a ToggleGroupItem were rendered without a provider
C20_Witness ==
    /\ Len(ctx.renders) = 2
    /\ ctx.renders[1].consumer = "CheckboxIndicator"
    /\ ctx.renders[2].consumer = "ToggleGroupItem"
    /\ \A i \in 1..2 : ctx.renders[i].provided = Undefined
    /\ \A i \in 1..2 : ctx.renders[i].result.error # Undefined

(***************************************************************************)
(* Properties of two instances                                             *)
(***************************************************************************)
\* a HoverCard instance has the same open value, refs, pending timers and
\* history before and after a step
SameHoverCard(before, after) ==
    /\ after.cell = before.cell
    /\ after.openTimerRef = before.openTimerRef
    /\ after.closeTimerRef = before.closeTimerRef
    /\ after.timers = before.timers
    /\ after.mounted = before.mounted
    /\ after.hist = before.hist

\* C17: an event on one HoverCard (a pointer event, a timer callback, its
\* unmount) leaves the other HoverCard's open value, refs and pending timers
\* as they are, and a press on an item of one ToggleGroup leaves the other
\* ToggleGroup as it is
C17_InstancesAreIsolated ==
    [][/\ hc'.hist # hc.hist => SameHoverCard(hc2, hc2')
       /\ hc2'.hist # hc2.hist => SameHoverCard(hc, hc')
       /\ tg'.presses # tg.presses => tg2' = tg2
       /\ tg2'.presses # tg2.presses => tg' = tg]_vars

\* the first HoverCard has opened while the second has a timer pending
C17_Witness ==
    /\ hc.mounted /\ hc2.mounted
    /\ Open(hc) /\ hc.cell.changes = <<TRUE>>
    /\ hc2.hist # <<>>
    /\ hc2.timers # {}

(***************************************************************************)
(* Properties of settled states                                            *)
(***************************************************************************)
\* the uncontrolled HoverCard has taken pointer events, none of them touch,
\* and no timer is pending
Settled(s) ==
    /\ s.mounted
    /\ s.cell.prop = Undefined
    /\ PointerHist(s) # <<>>
    /\ \A i \in DOMAIN PointerHist(s) : ~PointerHist(s)[i].touch
    /\ s.timers = {}

\* C21: once an uncontrolled HoverCard has taken non-touch pointer events and
\* every pending timer has fired, open is true if the last pointer event was
\* an enter and false if it was a leave
C21_SettlesOnLastIntent ==
    Settled(hc) =>
        LET last == PointerHist(hc)[Len(PointerHist(hc))]
        IN  Open(hc) <=> (last.ev = "enter")

\* the input's events that a click caused and that propagate to ancestors
PropagatedFromInput(s) ==
    SelectSeq(s.events, LAMBDA e : e.cause.click /\ e.bubbles)

\* the Checkbox is in a form, no consumer stopped a click, and the owner has
\* rendered in answer to every click
ClicksAnswered(s) ==
    /\ s.mounted
    /\ s.button
    /\ s.inForm
    /\ s.clicks # <<>>
    /\ \A i \in DOMAIN s.clicks : ~s.clicks[i].stopped
    /\ s.pending = Undefined

\* C22: for a Checkbox in a form whose clicks no consumer stopped, no click
\* propagates from the button and every click has one click event
\* propagating from the hidden input, also when the Checkbox is controlled
\* and its owner leaves the checked prop as it is
C22_OneClickPropagates ==
    ClicksAnswered(cb) =>
        /\ \A i \in DOMAIN cb.clicks : ~cb.clicks[i].propagated
        /\ Len(PropagatedFromInput(cb)) = Len(cb.clicks)

\* the Checkbox has been mounted and neither clicked nor given another prop
JustMounted(s) == s.mounted /\ s.clicks = <<>> /\ s.propChanges = 0

\* C23: the hidden input dispatches no event and keeps its native checked
\* and indeterminate flags when the logical state did not change: on the
\* initial mount, on a render with the same checked value, and on a render
\* where only the bubbles flag changed
C23_NoChangeNoDispatch ==
    /\ [](JustMounted(cb) /\ cb.input # Undefined =>
            /\ cb.events = <<>>
            /\ cb.input = Some([checked |-> (Checked(cb) = "true"),
                                indeterminate |-> FALSE]))
    /\ [][(/\ cb.input # Undefined
           /\ cb'.input # Undefined
           /\ Checked(cb') = Checked(cb)) =>
            /\ cb'.events = cb.events
            /\ cb'.input = cb.input]_vars

\* after a change was dispatched as bubbling, a stopped click that the owner
\* of the controlled Checkbox ignored made the next render pass bubbles = false
C23_Witness ==
    /\ cb.mounted
    /\ cb.input # Undefined
    /\ Len(cb.clicks) = 2
    /\ cb.pending = Undefined
    /\ Len(cb.events) = 1
    /\ cb.events[1].bubbles
    /\ cb.effectDeps[3] = FALSE

====
